---- MODULE Spec2Model ----
(***************************************************************************)
(* Task store ([functional].[task]) and the five stored procedures that    *)
(* act on it, called through the service facade and the HTTP handlers.     *)
(*                                                                         *)
(* Every request is served by its own database session.  A stored          *)
(* procedure is a sequence of T-SQL statements; each statement is atomic   *)
(* (READ COMMITTED), statements of different sessions interleave.  The     *)
(* validations that read only the parameters, the clock and the account    *)
(* and user tables (which no procedure writes) are evaluated when the      *)
(* handler is entered; every statement that reads or writes the task       *)
(* table is a step of its own.                                             *)
(***************************************************************************)
EXTENDS Integers, Sequences, FiniteSets, TLC

(***************************************************************************)
(* Bounds of the model                                                     *)
(***************************************************************************)
\* Spec: rows inserted and requests served
MaxTasks == 2
MaxCalls == 3
\* SpecList: rows inserted and requests served
MaxRows == 3
MaxListCalls == 4
\* SpecInput: rows inserted and requests served
MaxInputRows == 2
MaxInputCalls == 4
\* SpecRoundTrip: rows inserted and requests served
MaxRoundTripRows == 2
MaxRoundTripCalls == 3
\* SpecFault: rows inserted and requests served
MaxFaultRows == 2
MaxFaultCalls == 3
\* SpecEffect: rows inserted and requests served
MaxEffectRows == 2
MaxEffectCalls == 3
\* SpecPool: calls of getPool and closePool begun
MaxPoolCalls == 4
\* SpecForm: rows inserted and requests served
MaxFormRows == 2
MaxFormCalls == 2
\* the clock: its last value, and the clock values that fall on one day
MaxNow == 2
TicksPerDay == 2

(***************************************************************************)
(* Program constants                                                       *)
(***************************************************************************)
\* NULL of a numeric or date column or parameter
NULL == -1
\* the error number of every ;THROW of the procedures
RuleError == 51000
\* the engine's error number for a duplicate key in a unique index
DuplicateKey == 2601
TitleMaxLength == 100
DescriptionMaxLength == 500
PriorityDefault == 1

Sessions == {"s1", "s2"}

\* rows of [subscription].[account] and [security].[user]
account == {1, 2}
user == {[idUser |-> 1, idAccount |-> 1],
         [idUser |-> 2, idAccount |-> 1],
         [idUser |-> 3, idAccount |-> 2]}

\* the callers of getPool and closePool
PoolCallers == {"c1", "c2", "c3"}

VARIABLES task, identity, now, pc, req, res, calls,
          pool, pools, ppc, held, tally, form

\* the task table, the clock and the sessions of the handlers
storeVars == <<task, identity, now, pc, req, res, calls>>

\* the module variable pool (0 is null), the ConnectionPool objects created
\* so far with their state, and for every caller its position, the pool it
\* works on or was given, and the number of calls begun
poolVars == <<pool, pools, ppc, held, tally>>

\* the values of the fields of the client's TaskForm
clientVars == <<form>>

vars == <<task, identity, now, pc, req, res, calls,
          pool, pools, ppc, held, tally, form>>

(***************************************************************************)
(* T-SQL built-ins.  Strings are sequences of characters.                  *)
(***************************************************************************)
RECURSIVE RTRIM(_)
RTRIM(s) ==
  IF s # <<>> /\ s[Len(s)] = " " THEN RTRIM(SubSeq(s, 1, Len(s) - 1)) ELSE s

RECURSIVE LTRIM(_)
LTRIM(s) ==
  IF s # <<>> /\ s[1] = " " THEN LTRIM(Tail(s)) ELSE s

\* LEN() does not count trailing blanks
LEN(s) == Len(RTRIM(s))

\* comparison of two NVARCHAR values pads the shorter one with blanks
SqlStringEq(s, t) == RTRIM(s) = RTRIM(t)

\* a value passed to a NVARCHAR(n) parameter is cut to n characters
NVarChar(s, n) == IF Len(s) > n THEN SubSeq(s, 1, n) ELSE s

\* CAST(GETUTCDATE() AS DATE)
GETUTCDATE == now
CastAsDate(ts) == ts \div TicksPerDay

\* a point in time bound to a DATE parameter keeps its UTC calendar day only
DateParam(ts) == IF ts = NULL THEN NULL ELSE CastAsDate(ts)

\* the Date the driver builds from a DATE column: midnight UTC of that day
JsDate(d) == IF d = NULL THEN NULL ELSE d * TicksPerDay

(***************************************************************************)
(* Requests and responses                                                  *)
(***************************************************************************)
NoReq ==
  [op |-> "none", idAccount |-> 0, idUser |-> 0, idTask |-> 0, title |-> <<>>,
   description |-> <<>>, priority |-> NULL, dueDate |-> NULL, status |-> NULL]

NoRes ==
  [kind |-> "none", number |-> 0, message |-> "", recordset |-> <<>>,
   http |-> "none"]

\* the result of a procedure that ran to its end
Ok(recordset) ==
  [kind |-> "ok", number |-> 0, message |-> "", recordset |-> recordset]

\* ;THROW 51000, msg, 1
Throw(msg) ==
  [kind |-> "error", number |-> RuleError, message |-> msg, recordset |-> <<>>]

\* an error raised by the engine itself and re-thrown by the CATCH block
EngineError(n) ==
  [kind |-> "error", number |-> n, message |-> "engine", recordset |-> <<>>]

\* the error getPool throws when the connection fails; it is no engine
\* error and carries no number
ConnectionError ==
  [kind |-> "error", number |-> 0, message |-> "connection",
   recordset |-> <<>>]

\* the error schema.parse throws; it carries no number
ZodError ==
  [kind |-> "ZodError", number |-> 0, message |-> "VALIDATION_ERROR",
   recordset |-> <<>>]

(***************************************************************************)
(* HTTP handlers: the catch blocks                                         *)
(***************************************************************************)
\* variant: the catch blocks answer every error they do not know with 400
HandlerStatus_Unclassified400(op, out) ==
  IF out.kind = "ok"
    THEN (IF op = "Create" THEN "CREATED" ELSE "OK")
  ELSE IF out.kind = "ZodError" THEN "BAD_REQUEST"
  ELSE IF out.number = RuleError
    THEN (IF op \in {"Get", "Delete"} THEN "NOT_FOUND" ELSE "BAD_REQUEST")
  ELSE "BAD_REQUEST"

\* the status a handler writes; "next" when it writes none and hands the
\* error to next(error)
HandlerStatus(op, out) ==
  IF out.kind = "ok"
    THEN (IF op = "Create" THEN "CREATED" ELSE "OK")
  ELSE IF out.kind = "ZodError" THEN "BAD_REQUEST"
  ELSE IF out.number = RuleError
    THEN (IF op \in {"Get", "Delete"} THEN "NOT_FOUND" ELSE "BAD_REQUEST")
  ELSE "next"

Respond(op, out) ==
  [kind |-> out.kind, number |-> out.number, message |-> out.message,
   recordset |-> out.recordset, http |-> HandlerStatus(op, out)]

(***************************************************************************)
(* Transport validation: the schemas of the handlers.  A string's length   *)
(* counts every character, blanks included.                                *)
(***************************************************************************)
zFK(n) == n > 0

zString(x, maxLength) == Len(x) >= 1 /\ Len(x) <= maxLength

zNullableString(x, maxLength) == Len(x) <= maxLength

\* The string of a dueDate field.  A string with date, time and Z is
\* written as the point in time it names (0 or more); the string of a day
\* without a time, "YYYY-MM-DD", is written DateOnly(day), below NULL.
DateOnly(day) == 0 - 2 - day

\* z.string().datetime() accepts the strings with date, time and Z only
zDateString(x) == x >= 0

zNullableDateString(x) == x = NULL \/ zDateString(x)

createBodySchema(r) ==
  /\ zFK(r.idAccount)
  /\ zFK(r.idUser)
  /\ zString(r.title, TitleMaxLength)
  /\ zNullableString(r.description, DescriptionMaxLength)
  /\ (r.priority = NULL \/ (r.priority >= 0 /\ r.priority <= 2))
  /\ zNullableDateString(r.dueDate)

updateParamsSchema(r) == r.idTask > 0

updateBodySchema(r) ==
  /\ zFK(r.idAccount)
  /\ zFK(r.idUser)
  /\ zString(r.title, TitleMaxLength)
  /\ zNullableString(r.description, DescriptionMaxLength)
  /\ r.priority # NULL /\ r.priority >= 0 /\ r.priority <= 2
  /\ zNullableDateString(r.dueDate)
  /\ r.status # NULL /\ r.status >= 0 /\ r.status <= 1

listQuerySchema(r) ==
  /\ r.idAccount > 0
  /\ r.idUser > 0
  /\ (r.status = NULL \/ (r.status >= 0 /\ r.status <= 1))
  /\ (r.priority = NULL \/ (r.priority >= 0 /\ r.priority <= 2))

getParamsSchema(r) == r.idTask > 0

getQuerySchema(r) == r.idAccount > 0 /\ r.idUser > 0

deleteParamsSchema(r) == r.idTask > 0

deleteQuerySchema(r) == r.idAccount > 0 /\ r.idUser > 0

(***************************************************************************)
(* Service facade: parameters handed to the procedures                     *)
(***************************************************************************)
taskCreate(r) ==
  [r EXCEPT !.title = NVarChar(r.title, TitleMaxLength),
            !.description = NVarChar(r.description, DescriptionMaxLength),
            !.priority = IF r.priority = NULL THEN PriorityDefault
                         ELSE r.priority,
            !.dueDate = DateParam(r.dueDate)]

taskUpdate(r) ==
  [r EXCEPT !.title = NVarChar(r.title, TitleMaxLength),
            !.description = NVarChar(r.description, DescriptionMaxLength),
            !.dueDate = DateParam(r.dueDate)]

(***************************************************************************)
(* Predicates of the procedures                                            *)
(***************************************************************************)
AccountExists(a) == \E acc \in account : acc = a.idAccount

\* variant: the user is looked up by idUser alone
UserExists_AnyAccount(a) == \E usr \in user : usr.idUser = a.idUser

\* EXISTS (SELECT * FROM [security].[user] usr WHERE usr.[idUser] = @idUser
\* AND usr.[idAccount] = @idAccount)
UserExists(a) ==
  \E usr \in user : usr.idUser = a.idUser /\ usr.idAccount = a.idAccount

\* variant: the predicate without the idUser column
TaskMatches_AnyUser(tsk, a) ==
  /\ tsk.idTask = a.idTask
  /\ tsk.idAccount = a.idAccount
  /\ tsk.deleted = 0

\* variant: the predicate without the deleted column
TaskMatches_Deleted(tsk, a) ==
  /\ tsk.idTask = a.idTask
  /\ tsk.idAccount = a.idAccount
  /\ tsk.idUser = a.idUser

\* WHERE idTask = @idTask AND idAccount = @idAccount AND idUser = @idUser
\*   AND deleted = 0
TaskMatches(tsk, a) ==
  /\ tsk.idTask = a.idTask
  /\ tsk.idAccount = a.idAccount
  /\ tsk.idUser = a.idUser
  /\ tsk.deleted = 0

TaskExists(a) == \E tsk \in task : TaskMatches(tsk, a)

\* variant: the check also counts deleted rows
TitleTakenCreate_Deleted(a) ==
  \E tsk \in task :
    /\ tsk.idAccount = a.idAccount
    /\ tsk.idUser = a.idUser
    /\ SqlStringEq(tsk.title, a.title)

\* variant: the check counts pending rows only
TitleTakenCreate_Pending(a) ==
  \E tsk \in task :
    /\ tsk.idAccount = a.idAccount
    /\ tsk.idUser = a.idUser
    /\ SqlStringEq(tsk.title, a.title)
    /\ tsk.status = 0
    /\ tsk.deleted = 0

\* the uniqueness check of spTaskCreate
TitleTakenCreate(a) ==
  \E tsk \in task :
    /\ tsk.idAccount = a.idAccount
    /\ tsk.idUser = a.idUser
    /\ SqlStringEq(tsk.title, a.title)
    /\ tsk.deleted = 0

\* variant: the check does not leave out the task's own row
TitleTakenUpdate_Self(a) ==
  \E tsk \in task :
    /\ tsk.idAccount = a.idAccount
    /\ tsk.idUser = a.idUser
    /\ SqlStringEq(tsk.title, a.title)
    /\ tsk.deleted = 0

\* the uniqueness check of spTaskUpdate
TitleTakenUpdate(a) ==
  \E tsk \in task :
    /\ tsk.idAccount = a.idAccount
    /\ tsk.idUser = a.idUser
    /\ SqlStringEq(tsk.title, a.title)
    /\ tsk.idTask # a.idTask
    /\ tsk.deleted = 0

\* variant: the table without the unique index
uqTask_Account_User_Title_Absent(rows) == TRUE

\* uqTask_Account_User_Title: unique on (idAccount, idUser, title)
\* WHERE deleted = 0
uqTask_Account_User_Title(rows) ==
  \A t1, t2 \in rows :
    (/\ t1.idTask # t2.idTask
     /\ t1.deleted = 0 /\ t2.deleted = 0
     /\ t1.idAccount = t2.idAccount
     /\ t1.idUser = t2.idUser) => ~SqlStringEq(t1.title, t2.title)

(***************************************************************************)
(* Parameter validations, in the order of the procedures                   *)
(***************************************************************************)
\* variant: the current day counts as past
DueDateInPast_Today(a) ==
  a.dueDate # NULL /\ a.dueDate <= CastAsDate(GETUTCDATE)

\* @dueDate IS NOT NULL AND @dueDate < CAST(GETUTCDATE() AS DATE)
DueDateInPast(a) ==
  a.dueDate # NULL /\ a.dueDate < CastAsDate(GETUTCDATE)

\* variant: the account and the user are looked up before the dueDate is
\* examined
spTaskCreate_Validation_AccountFirst(a) ==
  IF LTRIM(RTRIM(a.title)) = <<>> THEN "titleRequired"
  ELSE IF LEN(a.title) > TitleMaxLength THEN "titleExceedsMaxLength"
  ELSE IF LEN(a.description) > DescriptionMaxLength
    THEN "descriptionExceedsMaxLength"
  ELSE IF ~(a.priority >= 0 /\ a.priority <= 2) THEN "invalidPriority"
  ELSE IF ~AccountExists(a) THEN "accountDoesntExist"
  ELSE IF ~UserExists(a) THEN "userDoesntExist"
  ELSE IF DueDateInPast(a) THEN "dueDateInPast"
  ELSE "ok"

spTaskCreate_Validation(a) ==
  IF LTRIM(RTRIM(a.title)) = <<>> THEN "titleRequired"
  ELSE IF LEN(a.title) > TitleMaxLength THEN "titleExceedsMaxLength"
  ELSE IF LEN(a.description) > DescriptionMaxLength
    THEN "descriptionExceedsMaxLength"
  ELSE IF ~(a.priority >= 0 /\ a.priority <= 2) THEN "invalidPriority"
  ELSE IF DueDateInPast(a) THEN "dueDateInPast"
  ELSE IF ~AccountExists(a) THEN "accountDoesntExist"
  ELSE IF ~UserExists(a) THEN "userDoesntExist"
  ELSE "ok"

spTaskUpdate_Validation(a) ==
  IF LTRIM(RTRIM(a.title)) = <<>> THEN "titleRequired"
  ELSE IF LEN(a.title) > TitleMaxLength THEN "titleExceedsMaxLength"
  ELSE IF LEN(a.description) > DescriptionMaxLength
    THEN "descriptionExceedsMaxLength"
  ELSE IF ~(a.priority >= 0 /\ a.priority <= 2) THEN "invalidPriority"
  ELSE IF ~(a.status >= 0 /\ a.status <= 1) THEN "invalidStatus"
  ELSE IF DueDateInPast(a) THEN "dueDateInPast"
  ELSE IF ~AccountExists(a) THEN "accountDoesntExist"
  ELSE IF ~UserExists(a) THEN "userDoesntExist"
  ELSE "ok"

spTaskGet_Validation(a) ==
  IF ~AccountExists(a) THEN "accountDoesntExist"
  ELSE IF ~UserExists(a) THEN "userDoesntExist"
  ELSE "ok"

spTaskDelete_Validation(a) ==
  IF ~AccountExists(a) THEN "accountDoesntExist"
  ELSE IF ~UserExists(a) THEN "userDoesntExist"
  ELSE "ok"

spTaskList_Validation(a) ==
  IF ~AccountExists(a) THEN "accountDoesntExist"
  ELSE IF ~UserExists(a) THEN "userDoesntExist"
  ELSE IF a.status # NULL /\ ~(a.status >= 0 /\ a.status <= 1)
    THEN "invalidStatus"
  ELSE IF a.priority # NULL /\ ~(a.priority >= 0 /\ a.priority <= 2)
    THEN "invalidPriority"
  ELSE "ok"

(***************************************************************************)
(* Control                                                                 *)
(***************************************************************************)
\* the handler of session s answers and the session becomes free
Finish(s, out) ==
  /\ pc' = [pc EXCEPT ![s] = "idle"]
  /\ res' = [res EXCEPT ![s] = Respond(req[s].op, out)]
  /\ UNCHANGED <<req, calls>>
  /\ UNCHANGED poolVars
  /\ UNCHANGED clientVars

\* the procedure of session s goes on with its next statement
Goto(s, label) ==
  /\ pc' = [pc EXCEPT ![s] = label]
  /\ UNCHANGED <<req, res, calls>>
  /\ UNCHANGED poolVars
  /\ UNCHANGED clientVars

\* variant: the handler calls the facade without parsing the request
Enter_Unparsed(s, r, parsed, verdict, label, limit) ==
  /\ pc[s] = "idle"
  /\ calls < limit
  /\ calls' = calls + 1
  /\ req' = [req EXCEPT ![s] = r]
  /\ IF verdict = "ok"
       THEN /\ pc' = [pc EXCEPT ![s] = label]
            /\ res' = [res EXCEPT ![s] = NoRes]
       ELSE /\ pc' = pc
            /\ res' = [res EXCEPT ![s] = Respond(r.op, Throw(verdict))]
  /\ UNCHANGED <<task, identity, now>>
  /\ UNCHANGED poolVars
  /\ UNCHANGED clientVars

\* a handler is entered with request r; parsed tells whether schema.parse
\* accepts it, verdict is the outcome of the procedure's parameter
\* validations, limit the number of requests served
Enter(s, r, parsed, verdict, label, limit) ==
  /\ pc[s] = "idle"
  /\ calls < limit
  /\ calls' = calls + 1
  /\ req' = [req EXCEPT ![s] = r]
  /\ IF ~parsed
       THEN /\ pc' = pc
            /\ res' = [res EXCEPT ![s] = Respond(r.op, ZodError)]
       ELSE IF verdict = "ok"
       THEN /\ pc' = [pc EXCEPT ![s] = label]
            /\ res' = [res EXCEPT ![s] = NoRes]
       ELSE /\ pc' = pc
            /\ res' = [res EXCEPT ![s] = Respond(r.op, Throw(verdict))]
  /\ UNCHANGED <<task, identity, now>>
  /\ UNCHANGED poolVars
  /\ UNCHANGED clientVars

\* the parameters the procedure of session s runs with
Params(s) ==
  IF req[s].op = "Create" THEN taskCreate(req[s])
  ELSE IF req[s].op = "Update" THEN taskUpdate(req[s])
  ELSE req[s]

Init ==
  /\ task = {}
  /\ identity = 0
  /\ now = 0
  /\ calls = 0
  /\ pc = [s \in Sessions |-> "idle"]
  /\ req = [s \in Sessions |-> NoReq]
  /\ res = [s \in Sessions |-> NoRes]
  /\ pool = 0
  /\ pools = <<>>
  /\ ppc = [c \in PoolCallers |-> "idle"]
  /\ held = [c \in PoolCallers |-> 0]
  /\ tally = [getPool |-> 0, closePool |-> 0, closed |-> 0]
  /\ form = [title |-> <<>>, description |-> <<>>, priority |-> 1,
             dueDate |-> NULL]

(***************************************************************************)
(* POST /task: spTaskCreate                                                *)
(***************************************************************************)
\* inserts that have been started and not yet executed
PendingInserts ==
  Cardinality({s \in Sessions : pc[s] \in {"create_unique", "create_insert"}})

postHandler(s, M) ==
  /\ identity + PendingInserts < M.rows
  /\ \E r \in M.requests :
       /\ r.op = "Create"
       /\ Enter(s, r, createBodySchema(r),
                spTaskCreate_Validation(taskCreate(r)), "create_unique",
                M.calls)

spTaskCreate_Unique(s) ==
  /\ pc[s] = "create_unique"
  /\ IF TitleTakenCreate(Params(s))
       THEN Finish(s, Throw("titleAlreadyExists"))
       ELSE Goto(s, "create_insert")
  /\ UNCHANGED <<task, identity, now>>

\* variant: the row is inserted as completed
NewTask_Completed(a, id) ==
  [idTask |-> id, idAccount |-> a.idAccount, idUser |-> a.idUser,
   title |-> a.title, description |-> a.description,
   priority |-> a.priority, dueDate |-> a.dueDate, status |-> 1,
   dateCreated |-> GETUTCDATE, dateModified |-> GETUTCDATE, deleted |-> 0]

\* variant: the VALUES list gives @priority to the status column
NewTask_StatusFromPriority(a, id) ==
  [idTask |-> id, idAccount |-> a.idAccount, idUser |-> a.idUser,
   title |-> a.title, description |-> a.description,
   priority |-> a.priority, dueDate |-> a.dueDate, status |-> a.priority,
   dateCreated |-> GETUTCDATE, dateModified |-> GETUTCDATE, deleted |-> 0]

\* INSERT INTO [functional].[task] (...) VALUES (..., 0, GETUTCDATE(),
\* GETUTCDATE()); deleted takes the default of its column
NewTask(a, id) ==
  [idTask |-> id, idAccount |-> a.idAccount, idUser |-> a.idUser,
   title |-> a.title, description |-> a.description,
   priority |-> a.priority, dueDate |-> a.dueDate, status |-> 0,
   dateCreated |-> GETUTCDATE, dateModified |-> GETUTCDATE, deleted |-> 0]

\* variant: the CATCH block re-throws without rolling back, and the row
\* stays
spTaskCreate_Insert_NoRollback(s) ==
  /\ pc[s] = "create_insert"
  /\ identity' = identity + 1
  /\ LET tsk == NewTask(Params(s), identity + 1) IN
       /\ task' = task \cup {tsk}
       /\ IF uqTask_Account_User_Title(task \cup {tsk})
            THEN Finish(s, Ok(<<[idTask |-> tsk.idTask]>>))
            ELSE Finish(s, EngineError(DuplicateKey))
  /\ UNCHANGED now

\* BEGIN TRAN; INSERT; SELECT @idTask; COMMIT TRAN, or ROLLBACK TRAN; THROW
spTaskCreate_Insert(s) ==
  /\ pc[s] = "create_insert"
  /\ identity' = identity + 1
  /\ LET tsk == NewTask(Params(s), identity + 1) IN
       IF uqTask_Account_User_Title(task \cup {tsk})
         THEN /\ task' = task \cup {tsk}
              /\ Finish(s, Ok(<<[idTask |-> tsk.idTask]>>))
         ELSE /\ task' = task
              /\ Finish(s, EngineError(DuplicateKey))
  /\ UNCHANGED now

(***************************************************************************)
(* PUT /task/:id: spTaskUpdate                                             *)
(***************************************************************************)
putHandler(s, M) ==
  \E r \in M.requests :
    /\ r.op = "Update"
    /\ Enter(s, r, updateParamsSchema(r) /\ updateBodySchema(r),
             spTaskUpdate_Validation(taskUpdate(r)), "update_exists", M.calls)

\* variant: a completed task counts as missing
spTaskUpdate_Exists_PendingOnly(s) ==
  /\ pc[s] = "update_exists"
  /\ IF ~\E tsk \in task : TaskMatches(tsk, Params(s)) /\ tsk.status = 0
       THEN Finish(s, Throw("taskDoesntExist"))
       ELSE Goto(s, "update_unique")
  /\ UNCHANGED <<task, identity, now>>

\* variant: the title is looked up before the task
spTaskUpdate_Exists_TitleFirst(s) ==
  /\ pc[s] = "update_exists"
  /\ IF TitleTakenUpdate(Params(s))
       THEN Finish(s, Throw("titleAlreadyExists"))
       ELSE IF ~TaskExists(Params(s))
       THEN Finish(s, Throw("taskDoesntExist"))
       ELSE Goto(s, "update_unique")
  /\ UNCHANGED <<task, identity, now>>

spTaskUpdate_Exists(s) ==
  /\ pc[s] = "update_exists"
  /\ IF ~TaskExists(Params(s))
       THEN Finish(s, Throw("taskDoesntExist"))
       ELSE Goto(s, "update_unique")
  /\ UNCHANGED <<task, identity, now>>

spTaskUpdate_Unique(s) ==
  /\ pc[s] = "update_unique"
  /\ IF TitleTakenUpdate(Params(s))
       THEN Finish(s, Throw("titleAlreadyExists"))
       ELSE Goto(s, "update_update")
  /\ UNCHANGED <<task, identity, now>>

\* variant: the UPDATE statement without the description column
UpdatedTask_KeepsDescription(tsk, a) ==
  [tsk EXCEPT !.title = a.title,
              !.priority = a.priority, !.dueDate = a.dueDate,
              !.status = a.status, !.dateModified = GETUTCDATE]

\* SET title = @title, description = @description, priority = @priority,
\* dueDate = @dueDate, status = @status, dateModified = GETUTCDATE()
UpdatedTask(tsk, a) ==
  [tsk EXCEPT !.title = a.title, !.description = a.description,
              !.priority = a.priority, !.dueDate = a.dueDate,
              !.status = a.status, !.dateModified = GETUTCDATE]

\* BEGIN TRAN; UPDATE; SELECT @idTask; COMMIT TRAN, or ROLLBACK TRAN; THROW
spTaskUpdate_Update(s) ==
  /\ pc[s] = "update_update"
  /\ LET a == Params(s)
         rows == {IF TaskMatches(tsk, a) THEN UpdatedTask(tsk, a) ELSE tsk :
                    tsk \in task}
     IN IF uqTask_Account_User_Title(rows)
          THEN /\ task' = rows
               /\ Finish(s, Ok(<<[idTask |-> a.idTask]>>))
          ELSE /\ task' = task
               /\ Finish(s, EngineError(DuplicateKey))
  /\ UNCHANGED <<identity, now>>

(***************************************************************************)
(* DELETE /task/:id: spTaskDelete                                          *)
(***************************************************************************)
deleteHandler(s, M) ==
  \E r \in M.requests :
    /\ r.op = "Delete"
    /\ Enter(s, r, deleteParamsSchema(r) /\ deleteQuerySchema(r),
             spTaskDelete_Validation(r), "delete_exists", M.calls)

spTaskDelete_Exists(s) ==
  /\ pc[s] = "delete_exists"
  /\ IF ~TaskExists(Params(s))
       THEN Finish(s, Throw("taskDoesntExist"))
       ELSE Goto(s, "delete_update")
  /\ UNCHANGED <<task, identity, now>>

DeletedTask(tsk) ==
  [tsk EXCEPT !.deleted = 1, !.dateModified = GETUTCDATE]

\* variant: the row is removed from the table
spTaskDelete_Update_Hard(s) ==
  /\ pc[s] = "delete_update"
  /\ LET a == Params(s) IN
       /\ task' = {tsk \in task : ~TaskMatches(tsk, a)}
       /\ Finish(s, Ok(<<[idTask |-> a.idTask]>>))
  /\ UNCHANGED <<identity, now>>

\* BEGIN TRAN; UPDATE SET deleted = 1, dateModified = GETUTCDATE();
\* SELECT @idTask; COMMIT TRAN
spTaskDelete_Update(s) ==
  /\ pc[s] = "delete_update"
  /\ LET a == Params(s) IN
       /\ task' = {IF TaskMatches(tsk, a) THEN DeletedTask(tsk) ELSE tsk :
                     tsk \in task}
       /\ Finish(s, Ok(<<[idTask |-> a.idTask]>>))
  /\ UNCHANGED <<identity, now>>

(***************************************************************************)
(* GET /task/:id: spTaskGet                                                *)
(***************************************************************************)
\* variant: the SELECT list with dateModified in the place of dueDate
Columns_Modified(tsk) ==
  [idTask |-> tsk.idTask, title |-> tsk.title,
   description |-> tsk.description, priority |-> tsk.priority,
   dueDate |-> tsk.dateModified, status |-> tsk.status,
   dateCreated |-> tsk.dateCreated, dateModified |-> tsk.dateModified]

\* the columns of the SELECT lists of spTaskGet and spTaskList, as the
\* driver hands them to the facade
Columns(tsk) ==
  [idTask |-> tsk.idTask, title |-> tsk.title,
   description |-> tsk.description, priority |-> tsk.priority,
   dueDate |-> JsDate(tsk.dueDate), status |-> tsk.status,
   dateCreated |-> tsk.dateCreated, dateModified |-> tsk.dateModified]

getHandler(s, M) ==
  \E r \in M.requests :
    /\ r.op = "Get"
    /\ Enter(s, r, getParamsSchema(r) /\ getQuerySchema(r),
             spTaskGet_Validation(r), "get_exists", M.calls)

spTaskGet_Exists(s) ==
  /\ pc[s] = "get_exists"
  /\ IF ~TaskExists(Params(s))
       THEN Finish(s, Throw("taskDoesntExist"))
       ELSE Goto(s, "get_select")
  /\ UNCHANGED <<task, identity, now>>

spTaskGet_Select(s) ==
  /\ pc[s] = "get_select"
  /\ LET rows == {tsk \in task : TaskMatches(tsk, Params(s))} IN
       Finish(s, Ok(IF rows = {} THEN <<>>
                    ELSE <<Columns(CHOOSE tsk \in rows : TRUE)>>))
  /\ UNCHANGED <<task, identity, now>>

(***************************************************************************)
(* GET /task: spTaskList                                                   *)
(***************************************************************************)
\* variant: the WHERE clause without the deleted column
ListWhere_Deleted(tsk, a) ==
  /\ tsk.idAccount = a.idAccount
  /\ tsk.idUser = a.idUser
  /\ (a.status = NULL \/ tsk.status = a.status)
  /\ (a.priority = NULL \/ tsk.priority = a.priority)

\* variant: the WHERE clause leaves out the tasks whose dueDate has passed
ListWhere_NotOverdue(tsk, a) ==
  /\ tsk.idAccount = a.idAccount
  /\ tsk.idUser = a.idUser
  /\ tsk.deleted = 0
  /\ (a.status = NULL \/ tsk.status = a.status)
  /\ (a.priority = NULL \/ tsk.priority = a.priority)
  /\ (tsk.dueDate = NULL \/ tsk.dueDate >= CastAsDate(GETUTCDATE))

\* WHERE clause of spTaskList
ListWhere(tsk, a) ==
  /\ tsk.idAccount = a.idAccount
  /\ tsk.idUser = a.idUser
  /\ tsk.deleted = 0
  /\ (a.status = NULL \/ tsk.status = a.status)
  /\ (a.priority = NULL \/ tsk.priority = a.priority)

\* dueDate ASC: NULL is the lowest value of the engine's ordering
DueDateBefore(d1, d2) ==
  IF d1 = NULL THEN d2 # NULL ELSE d2 # NULL /\ d1 < d2

\* variant: ORDER BY priority DESC, dueDate ASC, dateCreated ASC
OrderByBefore_CreatedAsc(t1, t2) ==
  \/ t1.priority > t2.priority
  \/ /\ t1.priority = t2.priority
     /\ DueDateBefore(t1.dueDate, t2.dueDate)
  \/ /\ t1.priority = t2.priority
     /\ t1.dueDate = t2.dueDate
     /\ t1.dateCreated < t2.dateCreated

\* ORDER BY priority DESC, dueDate ASC, dateCreated DESC: t1 strictly
\* before t2
OrderByBefore(t1, t2) ==
  \/ t1.priority > t2.priority
  \/ /\ t1.priority = t2.priority
     /\ DueDateBefore(t1.dueDate, t2.dueDate)
  \/ /\ t1.priority = t2.priority
     /\ t1.dueDate = t2.dueDate
     /\ t1.dateCreated > t2.dateCreated

\* the orders in which the engine may return the rows: rows with equal
\* keys come in any order
Orderings(rows) ==
  LET n == Cardinality(rows) IN
    {f \in [1..n -> rows] :
       /\ \A i, j \in 1..n : i # j => f[i] # f[j]
       /\ \A i, j \in 1..n : i < j => ~OrderByBefore(f[j], f[i])}

getListHandler(s, M) ==
  \E r \in M.requests :
    /\ r.op = "List"
    /\ Enter(s, r, listQuerySchema(r), spTaskList_Validation(r),
             "list_select", M.calls)

spTaskList_Select(s) ==
  /\ pc[s] = "list_select"
  /\ LET rows == {tsk \in task : ListWhere(tsk, Params(s))} IN
       \E f \in Orderings(rows) :
         Finish(s, Ok([i \in 1..Cardinality(rows) |-> Columns(f[i])]))
  /\ UNCHANGED <<task, identity, now>>

(***************************************************************************)
(* The clock                                                               *)
(***************************************************************************)
Tick ==
  /\ now < MaxNow
  /\ now' = now + 1
  /\ UNCHANGED <<task, identity, pc, req, res, calls>>
  /\ UNCHANGED poolVars
  /\ UNCHANGED clientVars

(***************************************************************************)
(* instances/database: the connection pool.  Every function of the facade  *)
(* begins with await getPool(); the calls of different requests interleave *)
(* at their await.                                                         *)
(***************************************************************************)
\* the values pool.connected may show for ConnectionPool p: true while p is
\* open, false before it has connected and after it was closed; while
\* close() is running the driver may show either
Connected(p) ==
  IF pools[p] = "open" THEN {TRUE}
  ELSE IF pools[p] = "closing" THEN {TRUE, FALSE}
  ELSE {FALSE}

\* caller c is free and a further call may begin
MayCall(c) ==
  /\ ppc[c] = "idle"
  /\ tally.getPool + tally.closePool < MaxPoolCalls

\* getPool up to its await: if (pool && pool.connected) return pool;
\* otherwise new sql.ConnectionPool(dbConfig).connect() is started
getPool(c) ==
  /\ MayCall(c)
  /\ tally' = [tally EXCEPT !.getPool = @ + 1]
  /\ \E connected \in (IF pool = 0 THEN {FALSE} ELSE Connected(pool)) :
       IF connected
         THEN /\ held' = [held EXCEPT ![c] = pool]
              /\ UNCHANGED <<pools, ppc>>
         ELSE /\ pools' = Append(pools, "connecting")
              /\ held' = [held EXCEPT ![c] = Len(pools) + 1]
              /\ ppc' = [ppc EXCEPT ![c] = "connect"]
  /\ UNCHANGED pool
  /\ UNCHANGED storeVars
  /\ UNCHANGED clientVars

\* connect() resolves: pool = <the new ConnectionPool>; return pool
getPool_Connected(c) ==
  /\ ppc[c] = "connect"
  /\ pools' = [pools EXCEPT ![held[c]] = "open"]
  /\ pool' = held[c]
  /\ ppc' = [ppc EXCEPT ![c] = "idle"]
  /\ UNCHANGED <<held, tally>>
  /\ UNCHANGED storeVars
  /\ UNCHANGED clientVars

\* connect() rejects: the catch block logs the error and throws it again
getPool_Failed(c) ==
  /\ ppc[c] = "connect"
  /\ pools' = [pools EXCEPT ![held[c]] = "failed"]
  /\ held' = [held EXCEPT ![c] = 0]
  /\ ppc' = [ppc EXCEPT ![c] = "idle"]
  /\ UNCHANGED <<pool, tally>>
  /\ UNCHANGED storeVars
  /\ UNCHANGED clientVars

\* closePool up to its await: if (pool) pool.close() is started
closePool(c) ==
  /\ MayCall(c)
  /\ IF pool = 0
       THEN /\ tally' = [tally EXCEPT !.closePool = @ + 1, !.closed = @ + 1]
            /\ held' = [held EXCEPT ![c] = 0]
            /\ UNCHANGED <<pools, ppc>>
       ELSE /\ tally' = [tally EXCEPT !.closePool = @ + 1]
            /\ pools' = [pools EXCEPT ![pool] = IF @ = "closed" THEN @
                                                ELSE "closing"]
            /\ held' = [held EXCEPT ![c] = pool]
            /\ ppc' = [ppc EXCEPT ![c] = "close"]
  /\ UNCHANGED pool
  /\ UNCHANGED storeVars
  /\ UNCHANGED clientVars

\* close() resolves: pool = null
closePool_Closed(c) ==
  /\ ppc[c] = "close"
  /\ pools' = [pools EXCEPT ![held[c]] = "closed"]
  /\ pool' = 0
  /\ held' = [held EXCEPT ![c] = 0]
  /\ ppc' = [ppc EXCEPT ![c] = "idle"]
  /\ tally' = [tally EXCEPT !.closed = @ + 1]
  /\ UNCHANGED storeVars
  /\ UNCHANGED clientVars

(***************************************************************************)
(* Requests the clients send                                               *)
(***************************************************************************)
Request(op, owner) ==
  [NoReq EXCEPT !.op = op, !.idAccount = owner[1], !.idUser = owner[2]]

CreateRequests(Owners, Titles, Priorities, DueDates) ==
  {[Request("Create", o) EXCEPT !.title = t, !.priority = x[1],
                                !.dueDate = x[2]] :
     o \in Owners, t \in Titles, x \in Priorities \X DueDates}

UpdateRequests(Owners, Ids, Titles, Priorities, DueDates, Statuses) ==
  {[Request("Update", o) EXCEPT !.idTask = i[1], !.title = i[2],
                                !.priority = x[1], !.dueDate = x[2],
                                !.status = x[3]] :
     o \in Owners, i \in Ids \X Titles,
     x \in Priorities \X DueDates \X Statuses}

TaskRequests(op, Owners, Ids) ==
  {[Request(op, o) EXCEPT !.idTask = i] : o \in Owners, i \in Ids}

ListRequests(Owners, Statuses, Priorities) ==
  {[Request("List", o) EXCEPT !.status = x[1], !.priority = x[2]] :
     o \in Owners, x \in Statuses \X Priorities}

\* one statement of the procedure a session is running
Statement(s) ==
  \/ spTaskCreate_Unique(s)
  \/ spTaskCreate_Insert(s)
  \/ spTaskUpdate_Exists(s)
  \/ spTaskUpdate_Unique(s)
  \/ spTaskUpdate_Update(s)
  \/ spTaskDelete_Exists(s)
  \/ spTaskDelete_Update(s)
  \/ spTaskGet_Exists(s)
  \/ spTaskGet_Select(s)

(***************************************************************************)
(* Spec: two sessions, requests of two users of one account                *)
(***************************************************************************)
StoreOwners == {<<1, 1>>, <<1, 2>>}
StoreTitles == {<<"a">>, <<"b">>}

StoreRequests ==
       CreateRequests(StoreOwners, StoreTitles, {NULL}, {NULL})
  \cup UpdateRequests(StoreOwners, 1..MaxTasks, StoreTitles, {1}, {NULL}, {1})
  \cup TaskRequests("Delete", StoreOwners, 1..MaxTasks)
  \cup TaskRequests("Get", StoreOwners, 1..MaxTasks)

\* the requests served, the cap on the rows inserted and on the requests
StoreLoad ==
  [requests |-> StoreRequests, rows |-> MaxTasks, calls |-> MaxCalls]

Next ==
  \E s \in Sessions :
    \/ postHandler(s, StoreLoad)
    \/ putHandler(s, StoreLoad)
    \/ deleteHandler(s, StoreLoad)
    \/ getHandler(s, StoreLoad)
    \/ Statement(s)

Spec == Init /\ [][Next]_vars

(***************************************************************************)
(* SpecList: one session, tasks of several priorities and due dates, the   *)
(* clock running                                                           *)
(***************************************************************************)
ListOwner == {<<1, 1>>}

ListSpecRequests ==
       CreateRequests(ListOwner, {<<"a">>}, {NULL}, {NULL, TicksPerDay})
  \cup CreateRequests(ListOwner, {<<"b">>}, {2}, {NULL, 0, TicksPerDay})
  \cup CreateRequests(ListOwner, {<<"c">>}, {2}, {NULL, TicksPerDay})
  \cup CreateRequests({<<1, 2>>}, {<<"a">>}, {NULL}, {NULL})
  \cup UpdateRequests(ListOwner, 1..MaxRows, {<<"a">>}, {0}, {NULL}, {1})
  \cup TaskRequests("Delete", ListOwner, 1..MaxRows)
  \cup ListRequests(ListOwner, {NULL, 1}, {NULL, 2})

ListLoad ==
  [requests |-> ListSpecRequests, rows |-> MaxRows, calls |-> MaxListCalls]

ListNext ==
  \/ postHandler("s1", ListLoad)
  \/ putHandler("s1", ListLoad)
  \/ deleteHandler("s1", ListLoad)
  \/ getListHandler("s1", ListLoad)
  \/ spTaskCreate_Unique("s1")
  \/ spTaskCreate_Insert("s1")
  \/ spTaskUpdate_Exists("s1")
  \/ spTaskUpdate_Unique("s1")
  \/ spTaskUpdate_Update("s1")
  \/ spTaskDelete_Exists("s1")
  \/ spTaskDelete_Update("s1")
  \/ spTaskList_Select("s1")
  \/ Tick

SpecList == Init /\ [][ListNext]_vars

(***************************************************************************)
(* SpecInput: one session, requests with fields of every kind: blank and   *)
(* long titles, due dates before, on and after the current day, accounts   *)
(* and users that do not exist, tasks of another user; the clock running   *)
(***************************************************************************)
TitleOfLength(n) == [i \in 1..n |-> "x"]

\* account 3 does not exist (and so has no user), user 3 is a user of
\* account 2
InputOwner == {<<1, 1>>}
InputStrangers == {<<3, 1>>, <<1, 3>>}

InputCreateRequests ==
       CreateRequests(InputOwner, {<<"a">>}, {NULL}, {NULL, 0, TicksPerDay})
  \cup CreateRequests(InputOwner,
                      {<<" ">>, TitleOfLength(TitleMaxLength),
                       TitleOfLength(TitleMaxLength + 1)}, {NULL}, {0})
  \cup CreateRequests(InputStrangers, {<<"a">>}, {NULL}, {0})
  \cup CreateRequests({<<3, 1>>}, {<<" ">>}, {NULL}, {0})
  \cup {[r EXCEPT !.description = <<"d">>] :
          r \in CreateRequests(InputOwner, {<<"b">>}, {0}, {NULL})}

InputUpdateRequests ==
       UpdateRequests(InputOwner, 1..MaxInputRows, {<<"a">>, <<"b">>}, {1},
                      {NULL}, {1})
  \cup UpdateRequests(InputOwner, {1}, {<<"a">>}, {1}, {0}, {1})
  \cup UpdateRequests(InputOwner, {1},
                      {<<" ">>, TitleOfLength(TitleMaxLength),
                       TitleOfLength(TitleMaxLength + 1)}, {1}, {0}, {1})
  \cup UpdateRequests(InputStrangers, {1}, {<<"a">>}, {1}, {0}, {1})

InputRequests ==
       InputCreateRequests
  \cup InputUpdateRequests
  \cup TaskRequests("Get", InputOwner, 1..MaxInputRows)
  \cup TaskRequests("Get", {<<3, 1>>, <<1, 2>>}, {1})
  \cup TaskRequests("Delete", InputOwner, 1..MaxInputRows)
  \cup TaskRequests("Delete", {<<3, 1>>, <<1, 2>>}, {1})
  \cup ListRequests(InputOwner \cup {<<3, 1>>}, {NULL}, {NULL})

InputLoad ==
  [requests |-> InputRequests, rows |-> MaxInputRows,
   calls |-> MaxInputCalls]

InputNext ==
  \/ postHandler("s1", InputLoad)
  \/ putHandler("s1", InputLoad)
  \/ deleteHandler("s1", InputLoad)
  \/ getHandler("s1", InputLoad)
  \/ getListHandler("s1", InputLoad)
  \/ Statement("s1")
  \/ spTaskList_Select("s1")
  \/ Tick

SpecInput == Init /\ [][InputNext]_vars

(***************************************************************************)
(* SpecRoundTrip: one client creates tasks, another reads them; the clock  *)
(* running                                                                 *)
(***************************************************************************)
RoundTripRequests ==
       CreateRequests(InputOwner, {<<"a">>}, {NULL}, {NULL, 0, 1, TicksPerDay})
  \cup CreateRequests(InputOwner, {TitleOfLength(TitleMaxLength)}, {2},
                      {NULL})
  \cup {[r EXCEPT !.description = <<"d">>] :
          r \in CreateRequests(InputOwner, {<<"b">>, <<"b", " ">>}, {0},
                               {NULL})}
  \cup TaskRequests("Get", InputOwner \cup {<<1, 2>>}, 1..MaxRoundTripRows)

RoundTripLoad ==
  [requests |-> RoundTripRequests, rows |-> MaxRoundTripRows,
   calls |-> MaxRoundTripCalls]

RoundTripNext ==
  \/ postHandler("s1", RoundTripLoad)
  \/ spTaskCreate_Unique("s1")
  \/ spTaskCreate_Insert("s1")
  \/ getHandler("s2", RoundTripLoad)
  \/ spTaskGet_Exists("s2")
  \/ spTaskGet_Select("s2")
  \/ Tick

SpecRoundTrip == Init /\ [][RoundTripNext]_vars

(***************************************************************************)
(* SpecFault: two sessions, all the handlers, requests with fields the     *)
(* schemas or the procedures reject, and a database that may be out of     *)
(* reach when a request arrives                                            *)
(***************************************************************************)
\* schema.parse of the handler of request r accepts it
Parses(r) ==
  IF r.op = "Create" THEN createBodySchema(r)
  ELSE IF r.op = "Update" THEN updateParamsSchema(r) /\ updateBodySchema(r)
  ELSE IF r.op = "List" THEN listQuerySchema(r)
  ELSE IF r.op = "Get" THEN getParamsSchema(r) /\ getQuerySchema(r)
  ELSE deleteParamsSchema(r) /\ deleteQuerySchema(r)

\* a handler is entered, the request parses, and getPool rejects in the
\* facade: no statement runs
connectFails(s, M) ==
  \E r \in M.requests :
    /\ Parses(r)
    /\ pc[s] = "idle"
    /\ calls < M.calls
    /\ calls' = calls + 1
    /\ req' = [req EXCEPT ![s] = r]
    /\ res' = [res EXCEPT ![s] = Respond(r.op, ConnectionError)]
    /\ UNCHANGED <<task, identity, now, pc>>
    /\ UNCHANGED poolVars
    /\ UNCHANGED clientVars

\* account 2 exists and user 1 exists, but user 1 is a user of account 1
FaultStrangers == InputStrangers \cup {<<2, 1>>}

FaultRequests ==
       CreateRequests(InputOwner \cup {<<1, 2>>}, {<<"a">>}, {NULL}, {NULL})
  \cup CreateRequests(InputOwner, {<<"b">>}, {2}, {NULL})
  \cup CreateRequests(InputOwner, {TitleOfLength(TitleMaxLength + 1)}, {NULL},
                      {NULL})
  \cup CreateRequests(InputOwner, {<<"a">>}, {3}, {NULL})
  \cup CreateRequests(FaultStrangers, {<<"a">>}, {NULL}, {NULL})
  \cup UpdateRequests(InputOwner, {1}, {<<"a">>}, {0}, {NULL}, {1})
  \cup UpdateRequests(InputOwner, {1}, {<<"a">>}, {1}, {NULL}, {2})
  \cup TaskRequests("Get", InputOwner \cup {<<3, 1>>}, {1})
  \cup TaskRequests("Get", InputOwner, {0})
  \cup TaskRequests("Delete", InputOwner, {1})
  \cup TaskRequests("Delete", {<<0, 1>>}, {1})
  \cup ListRequests(InputOwner, {NULL, 2}, {NULL})

FaultLoad ==
  [requests |-> FaultRequests, rows |-> MaxFaultRows, calls |-> MaxFaultCalls]

FaultNext ==
  \E s \in Sessions :
    \/ postHandler(s, FaultLoad)
    \/ putHandler(s, FaultLoad)
    \/ deleteHandler(s, FaultLoad)
    \/ getHandler(s, FaultLoad)
    \/ getListHandler(s, FaultLoad)
    \/ connectFails(s, FaultLoad)
    \/ Statement(s)
    \/ spTaskList_Select(s)

SpecFault == Init /\ [][FaultNext]_vars

(***************************************************************************)
(* SpecEffect: one session writes and reads the tasks of one owner while   *)
(* the days pass                                                           *)
(***************************************************************************)
EffectRequests ==
       CreateRequests(InputOwner, {<<"a">>}, {NULL}, {NULL, 0})
  \cup {[r EXCEPT !.description = <<"d">>] :
          r \in CreateRequests(InputOwner, {<<"b">>}, {0}, {NULL})}
  \cup UpdateRequests(InputOwner, {1}, {<<"a">>}, {1}, {NULL, 0}, {0, 1})
  \cup TaskRequests("Delete", InputOwner, 1..MaxEffectRows)
  \cup TaskRequests("Get", InputOwner, {1})
  \cup ListRequests(InputOwner, {NULL}, {NULL})

EffectLoad ==
  [requests |-> EffectRequests, rows |-> MaxEffectRows,
   calls |-> MaxEffectCalls]

EffectNext ==
  \/ postHandler("s1", EffectLoad)
  \/ putHandler("s1", EffectLoad)
  \/ deleteHandler("s1", EffectLoad)
  \/ getHandler("s1", EffectLoad)
  \/ getListHandler("s1", EffectLoad)
  \/ Statement("s1")
  \/ spTaskList_Select("s1")
  \/ Tick

SpecEffect == Init /\ [][EffectNext]_vars

(***************************************************************************)
(* SpecPool: three callers of getPool and closePool                        *)
(***************************************************************************)
PoolNext ==
  \E c \in PoolCallers :
    \/ getPool(c)
    \/ getPool_Connected(c)
    \/ getPool_Failed(c)
    \/ closePool(c)
    \/ closePool_Closed(c)

SpecPool == Init /\ [][PoolNext]_vars

(***************************************************************************)
(* SpecForm: the client's TaskForm filled in and submitted to POST /task,  *)
(* the clock running                                                       *)
(***************************************************************************)
\* the values typed into the fields; the date input holds nothing (NULL)
\* or the string of a day
FormTitles == {<<>>, <<"a">>, TitleOfLength(TitleMaxLength + 1)}
FormDescriptions == {<<>>, <<"d">>}
FormPriorities == {0, 1, 2}
FormDays == 0..(MaxNow \div TicksPerDay + 1)

\* the browser's time zone: local time minus UTC
Zones == {0 - 1, 0, 1}

\* new Date(x): a string without a time names midnight UTC of its day
NewDate(x) == IF x >= 0 THEN x ELSE (0 - 2 - x) * TicksPerDay

\* today.setHours(0, 0, 0, 0): the beginning of the local day
LocalMidnight(zone) == ((now + zone) \div TicksPerDay) * TicksPerDay - zone

taskFormSchema(f, zone) ==
  /\ Len(f.title) >= 1 /\ Len(f.title) <= 100
  /\ Len(f.description) <= 500
  /\ f.priority >= 0 /\ f.priority <= 2
  /\ (f.dueDate = NULL \/ NewDate(f.dueDate) >= LocalMidnight(zone))

\* the body the form posts
handleFormSubmit(f) ==
  [NoReq EXCEPT !.op = "Create", !.idAccount = 1, !.idUser = 1,
                !.title = f.title, !.description = f.description,
                !.priority = f.priority, !.dueDate = f.dueDate]

\* a field of the form is changed
register ==
  /\ \/ \E v \in FormTitles : form' = [form EXCEPT !.title = v]
     \/ \E v \in FormDescriptions : form' = [form EXCEPT !.description = v]
     \/ \E v \in FormPriorities : form' = [form EXCEPT !.priority = v]
     \/ \E d \in FormDays : form' = [form EXCEPT !.dueDate = DateOnly(d)]
     \/ form' = [form EXCEPT !.dueDate = NULL]
  /\ UNCHANGED storeVars
  /\ UNCHANGED poolVars

\* the form is submitted: the resolver accepts its values and the body is
\* posted to POST /task
handleSubmit(s) ==
  /\ \E zone \in Zones : taskFormSchema(form, zone)
  /\ postHandler(s, [requests |-> {handleFormSubmit(form)},
                     rows |-> MaxFormRows, calls |-> MaxFormCalls])

FormNext ==
  \/ register
  \/ handleSubmit("s1")
  \/ spTaskCreate_Unique("s1")
  \/ spTaskCreate_Insert("s1")
  \/ Tick

SpecForm == Init /\ [][FormNext]_vars

(***************************************************************************)
(* Vocabulary of the properties                                            *)
(***************************************************************************)
\* session s executes the statement at label in this step
Executes(s, label) == pc[s] = label /\ pc'[s] # label

SameOwner(t, r) == t.idAccount = r.idAccount /\ t.idUser = r.idUser

\* the non-deleted rows of r's owner that carry r's title
Holders(rows, r) ==
  {t \in rows : SameOwner(t, r) /\ t.title = r.title /\ t.deleted = 0}

\* the stored tasks List is to return for request r
Listed(rows, r) ==
  {t \in rows :
     /\ t.deleted = 0
     /\ SameOwner(t, r)
     /\ (r.status # NULL => t.status = r.status)
     /\ (r.priority # NULL => t.priority = r.priority)}

\* the answer of a handler to a rule violation
Violation(s, msg, status) ==
  /\ res'[s].kind = "error"
  /\ res'[s].number = RuleError
  /\ res'[s].message = msg
  /\ res'[s].http = status
  /\ pc'[s] = "idle"

Succeeded(s, op) == req[s].op = op /\ res[s].kind = "ok"

\* session s receives a request in this step (where one session serves all
\* the requests)
Enters(s) == pc[s] = "idle" /\ calls' = calls + 1 /\ req'[s].op # "none"

\* a title without any character other than blanks
Blank(title) == \A i \in 1..Len(title) : title[i] = " "

\* the day of a point in time, and the point in time a day begins at
DayOf(ts) == ts \div TicksPerDay
Midnight(day) == day * TicksPerDay

Failed(s, op, msg) ==
  req[s].op = op /\ res[s].kind = "error" /\ res[s].message = msg

(***************************************************************************)
(* Title uniqueness                                                        *)
(***************************************************************************)
\* C1: in every reachable state no two non-deleted tasks have the same
\* (idAccount, idUser, title), under any interleaving of the statements of
\* Create, Update and Delete calls.
C1_TitleUnique ==
  \A t1, t2 \in task :
    (/\ t1 # t2
     /\ t1.deleted = 0 /\ t2.deleted = 0
     /\ t1.idAccount = t2.idAccount /\ t1.idUser = t2.idUser)
      => t1.title # t2.title

\* a write that passed its uniqueness check was rejected by the index
C1_Witness ==
  \E s \in Sessions :
    /\ res[s].number = DuplicateKey
    /\ Holders(task, req[s]) # {}

\* C2: a write that loses the race for a title fails with titleAlreadyExists,
\* answered 400, and not with an unclassified failure.
C2_RaceLoserTitleAlreadyExists ==
  [][\A s \in Sessions :
       LET r == req[s]
           others == {t \in Holders(task, r) : t.idTask # r.idTask}
       IN  (/\ \/ Executes(s, "create_insert")
               \/ /\ Executes(s, "update_update")
                  /\ \E t \in task : TaskMatches(t, r)
            /\ others # {})
             => Violation(s, "titleAlreadyExists", "BAD_REQUEST")]_vars

\* C3: no write of another operation takes effect between Create's
\* uniqueness check and its insert.
C3_CheckAndInsertAtomic ==
  [][\A s \in Sessions :
       (pc[s] = "create_insert" /\ pc'[s] = "create_insert") => task' = task]_vars

\* C4: a Create that finds a non-deleted task with its (idAccount, idUser,
\* title) when it examines the store fails with titleAlreadyExists and
\* inserts no row.
C4_DuplicateCreateFails ==
  [][\A s \in Sessions :
       (Executes(s, "create_unique") /\ Holders(task, req[s]) # {})
         => /\ Violation(s, "titleAlreadyExists", "BAD_REQUEST")
            /\ task' = task]_vars

C4_Witness ==
  \E s \in Sessions :
    /\ Failed(s, "Create", "titleAlreadyExists")
    /\ Holders(task, req[s]) # {}

\* C5: when the only tasks with a Create's (idAccount, idUser, title) are
\* deleted ones, the Create passes its uniqueness check, its insert succeeds
\* and returns an idTask that no stored task has.
C5_CreateAfterDelete ==
  [][\A s \in Sessions :
       LET r == req[s]
           deleted == {t \in task : SameOwner(t, r) /\ t.title = r.title
                                     /\ t.deleted = 1}
       IN  (deleted # {} /\ Holders(task, r) = {})
             => /\ Executes(s, "create_unique") => pc'[s] = "create_insert"
                /\ Executes(s, "create_insert")
                     => /\ res'[s].kind = "ok"
                        /\ res'[s].http = "CREATED"
                        /\ \A t \in task :
                             t.idTask # res'[s].recordset[1].idTask
                        /\ \E n \in task' \ task :
                             /\ n.idTask = res'[s].recordset[1].idTask
                             /\ SameOwner(n, r) /\ n.title = r.title
                             /\ n.deleted = 0
                             /\ task' = task \cup {n}]_vars

C5_Witness ==
  \E s \in Sessions :
    /\ Succeeded(s, "Create")
    /\ \E d, n \in task :
         /\ d.deleted = 1 /\ n.deleted = 0
         /\ n.idTask = res[s].recordset[1].idTask
         /\ d.idTask # n.idTask
         /\ SameOwner(d, req[s]) /\ SameOwner(n, req[s])
         /\ d.title = req[s].title /\ n.title = req[s].title

TaskDoesntExistResponse(op) ==
  [kind |-> "error", number |-> RuleError, message |-> "taskDoesntExist",
   recordset |-> <<>>,
   http |-> IF op = "Update" THEN "BAD_REQUEST" ELSE "NOT_FOUND"]

ExistsLabels == {"get_exists", "update_exists", "delete_exists"}

\* C9: Get, Update and Delete by a valid (idAccount, idUser) on an idTask
\* that another user of the account owns answer taskDoesntExist and leave
\* the store unchanged, with the very response given for an idTask that was
\* never created.
C9_OtherUsersTaskInvisible ==
  [][\A s \in Sessions :
       LET r == req[s]
           own == {t \in task : t.idTask = r.idTask /\ t.idUser = r.idUser}
       IN  (/\ \E l \in ExistsLabels : Executes(s, l)
            /\ own = {})
             => /\ res'[s] = TaskDoesntExistResponse(r.op)
                /\ pc'[s] = "idle"
                /\ task' = task]_vars

C9_Witness ==
  \E s1, s2 \in Sessions :
    /\ s1 # s2
    /\ req[s1].op \in {"Get", "Update", "Delete"}
    /\ req[s2].op = req[s1].op
    /\ res[s1] = TaskDoesntExistResponse(req[s1].op)
    /\ res[s2] = res[s1]
    /\ \E t \in task :
         /\ t.idTask = req[s1].idTask
         /\ t.idAccount = req[s1].idAccount
         /\ t.idUser # req[s1].idUser
         /\ t.deleted = 0
    /\ \A t \in task : t.idTask # req[s2].idTask

\* C10: a Delete that succeeded leaves its task deleted, a deleted task stays
\* deleted, and a Delete that finds its task deleted fails with
\* taskDoesntExist and leaves the store unchanged.
C10_SecondDeleteFails ==
  [][/\ \A s \in Sessions :
          (req'[s].op = "Delete" /\ res'[s].kind = "ok")
            => \E t \in task' :
                 /\ t.idTask = req'[s].idTask /\ SameOwner(t, req'[s])
                 /\ t.deleted = 1
     /\ \A t \in task :
          t.deleted = 1 => \E u \in task' :
                             u.idTask = t.idTask /\ u.deleted = 1
     /\ \A s \in Sessions :
          (/\ Executes(s, "delete_exists")
           /\ \E t \in task :
                /\ t.idTask = req[s].idTask /\ SameOwner(t, req[s])
                /\ t.deleted = 1)
            => /\ res'[s] = TaskDoesntExistResponse("Delete")
               /\ pc'[s] = "idle"
               /\ task' = task]_vars

C10_Witness ==
  \E s1, s2 \in Sessions :
    /\ s1 # s2
    /\ Succeeded(s1, "Delete")
    /\ Failed(s2, "Delete", "taskDoesntExist")
    /\ req[s1] = req[s2]
    /\ \E t \in task :
         /\ t.idTask = req[s2].idTask /\ SameOwner(t, req[s2])
         /\ t.deleted = 1

\* C11: a task whose deleted flag is set keeps it, and keeps every field as
\* it is, in every step of every Create, Update and Delete, under any
\* interleaving.
C11_DeletedIsTerminal ==
  [][\A t \in task : t.deleted = 1 => t \in task']_vars

\* an Update that passed its existence check ran its UPDATE statement after
\* the task had been deleted
C11_Witness ==
  \E s \in Sessions :
    /\ Succeeded(s, "Update")
    /\ \E t \in task :
         /\ t.idTask = req[s].idTask /\ SameOwner(t, req[s])
         /\ t.deleted = 1
         /\ t.title # req[s].title

\* C12: a Get that finds its task deleted fails with taskDoesntExist, and
\* every task a Get or a List returns is a stored task that is not deleted.
C12_DeletedInvisible ==
  [][\A s \in Sessions :
       LET rs == res'[s].recordset IN
         /\ (/\ Executes(s, "get_exists")
             /\ \E t \in task : t.idTask = req[s].idTask /\ t.deleted = 1)
              => /\ res'[s] = TaskDoesntExistResponse("Get")
                 /\ pc'[s] = "idle"
         /\ (Executes(s, "get_select") \/ Executes(s, "list_select"))
              => \A i \in 1..Len(rs) :
                   \E t \in task : t.idTask = rs[i].idTask /\ t.deleted = 0]_vars

\* a List that returned a task of an owner who also has a deleted task
C12_Witness ==
  \E s \in Sessions :
    /\ Succeeded(s, "List")
    /\ Len(res[s].recordset) >= 1
    /\ \E t \in task : SameOwner(t, req[s]) /\ t.deleted = 1

(***************************************************************************)
(* The fields of a task                                                    *)
(***************************************************************************)
\* C13: every Create that succeeds adds one row with status 0 and deleted 0,
\* whatever the fields of the request, and returns the idTask of that row.
C13_CreatedPendingNotDeleted ==
  [][\A s \in Sessions :
       (Executes(s, "create_insert") /\ res'[s].kind = "ok")
         => /\ res'[s].http = "CREATED"
            /\ \E n \in task' :
                 /\ n \notin task
                 /\ task' = task \cup {n}
                 /\ n.idTask = res'[s].recordset[1].idTask
                 /\ \A t \in task : t.idTask # n.idTask
                 /\ SameOwner(n, req[s])
                 /\ n.status = 0
                 /\ n.deleted = 0]_vars

\* a Create with a priority and a description of its own succeeded
C13_Witness ==
  \E s \in Sessions :
    /\ Succeeded(s, "Create")
    /\ req[s].priority # NULL /\ req[s].description # <<>>
    /\ \E n \in task :
         /\ n.idTask = res[s].recordset[1].idTask
         /\ n.status = 0 /\ n.deleted = 0

\* C14 as stated: a Get with the idTask a Create returned and the same
\* (idAccount, idUser) returns the title, priority and dueDate given to that
\* Create, status 0, description "" when none was given and priority 1 when
\* none was given.
C14_RoundTrip ==
  \A s1, s2 \in Sessions :
    (/\ Succeeded(s1, "Create") /\ Succeeded(s2, "Get")
     /\ req[s2].idTask = res[s1].recordset[1].idTask
     /\ req[s2].idAccount = req[s1].idAccount
     /\ req[s2].idUser = req[s1].idUser)
      => /\ Len(res[s2].recordset) = 1
         /\ res[s2].recordset[1].idTask = req[s2].idTask
         /\ res[s2].recordset[1].title = req[s1].title
         /\ res[s2].recordset[1].priority
              = (IF req[s1].priority = NULL THEN 1 ELSE req[s1].priority)
         /\ res[s2].recordset[1].status = 0
         /\ res[s2].recordset[1].description = req[s1].description
         /\ res[s2].recordset[1].dueDate = req[s1].dueDate

\* C14 amended: the same with, as dueDate, midnight UTC of the calendar day
\* of the dueDate given to Create, and no dueDate when none was given.
C14_RoundTripDay ==
  \A s1, s2 \in Sessions :
    (/\ Succeeded(s1, "Create") /\ Succeeded(s2, "Get")
     /\ req[s2].idTask = res[s1].recordset[1].idTask
     /\ req[s2].idAccount = req[s1].idAccount
     /\ req[s2].idUser = req[s1].idUser)
      => /\ Len(res[s2].recordset) = 1
         /\ res[s2].recordset[1].idTask = req[s2].idTask
         /\ res[s2].recordset[1].title = req[s1].title
         /\ res[s2].recordset[1].priority
              = (IF req[s1].priority = NULL THEN 1 ELSE req[s1].priority)
         /\ res[s2].recordset[1].status = 0
         /\ res[s2].recordset[1].description = req[s1].description
         /\ res[s2].recordset[1].dueDate
              = (IF req[s1].dueDate = NULL THEN NULL
                 ELSE Midnight(DayOf(req[s1].dueDate)))

\* a Get of a task created without priority and description and with a
\* dueDate at midnight
C14_Witness ==
  \E s1, s2 \in Sessions :
    /\ Succeeded(s1, "Create") /\ Succeeded(s2, "Get")
    /\ req[s2].idTask = res[s1].recordset[1].idTask
    /\ req[s2].idAccount = req[s1].idAccount
    /\ req[s2].idUser = req[s1].idUser
    /\ req[s1].priority = NULL
    /\ req[s1].dueDate # NULL
    /\ res[s2].recordset # <<>>
    /\ res[s2].recordset[1].dueDate = req[s1].dueDate

(***************************************************************************)
(* Validation                                                              *)
(***************************************************************************)
\* request r is a Create or an Update that the transport validation lets
\* through, with a title that is not blank and an account and user that
\* exist
NothingButDueDate(r) ==
  /\ r.op \in {"Create", "Update"}
  /\ r.idAccount = 1 /\ r.idUser \in {1, 2}
  /\ r.idTask >= 0
  /\ ~Blank(r.title) /\ Len(r.title) <= 100 /\ Len(r.description) <= 500
  /\ (r.op = "Create" => r.priority \in {NULL, 0, 1, 2})
  /\ (r.op = "Update" => r.priority \in {0, 1, 2} /\ r.status \in {0, 1})

\* C15: a Create or an Update whose dueDate lies on the current UTC day, or
\* on a later day, or is absent, passes the validations; one whose dueDate
\* lies on an earlier day is rejected with dueDateInPast and writes nothing;
\* and dueDateInPast is the answer to no request but one whose dueDate lies
\* on a day before the current one.
C15_DueDateTodayAccepted ==
  [][\A s \in Sessions :
       LET r == req'[s] IN
         /\ (Enters(s) /\ NothingButDueDate(r))
              => IF r.dueDate # NULL /\ DayOf(r.dueDate) < DayOf(now)
                   THEN /\ Violation(s, "dueDateInPast", "BAD_REQUEST")
                        /\ task' = task
                   ELSE pc'[s] = (IF r.op = "Create" THEN "create_unique"
                                  ELSE "update_exists")
         /\ (res'[s].kind = "error" /\ res'[s].message = "dueDateInPast")
              => /\ r.dueDate # NULL
                 /\ DayOf(r.dueDate) < DayOf(now')]_vars

\* a task was created on the day it is due, that day is the current one,
\* and a request with a dueDate of the day before was rejected
C15_Witness ==
  \E s \in Sessions :
    /\ res[s].kind = "error" /\ res[s].message = "dueDateInPast"
    /\ DayOf(req[s].dueDate) = DayOf(now) - 1
    /\ \E t \in task :
         /\ t.dueDate = DayOf(t.dateCreated)
         /\ t.dueDate = DayOf(now)

\* request r is a Create or an Update with nothing to object to but,
\* possibly, the length of its title
NothingButTitleLength(r) ==
  /\ r.op \in {"Create", "Update"}
  /\ r.idAccount = 1 /\ r.idUser \in {1, 2}
  /\ ~Blank(r.title) /\ Len(r.description) <= 500
  /\ (r.op = "Create" => r.priority \in {NULL, 0, 1, 2})
  /\ (r.op = "Update" => r.priority \in {0, 1, 2} /\ r.status \in {0, 1})
  /\ (r.dueDate = NULL \/ DayOf(r.dueDate) >= DayOf(now))

\* C16: a Create or an Update with a title of 100 characters passes the
\* validations, and one with a title of 101 characters fails with
\* titleExceedsMaxLength and writes nothing.
C16_TitleLengthBoundary ==
  [][\A s \in Sessions :
       LET r == req'[s] IN
         (Enters(s) /\ NothingButTitleLength(r))
           => /\ Len(r.title) = 100
                   => pc'[s] = (IF r.op = "Create" THEN "create_unique"
                                ELSE "update_exists")
              /\ Len(r.title) = 101
                   => /\ res'[s].kind = "error"
                      /\ res'[s].message = "titleExceedsMaxLength"
                      /\ task' = task]_vars

\* the preconditions on the fields of a Create or Update request r that do
\* not depend on the task table, in the order of the claims; "none" when r
\* meets them all
FirstViolatedInput(r) ==
  IF Blank(r.title) THEN "titleRequired"
  ELSE IF Len(r.title) > 100 THEN "titleExceedsMaxLength"
  ELSE IF Len(r.description) > 500 THEN "descriptionExceedsMaxLength"
  ELSE IF r.priority # NULL /\ r.priority \notin {0, 1, 2}
    THEN "invalidPriority"
  ELSE IF r.op = "Update" /\ r.status \notin {0, 1} THEN "invalidStatus"
  ELSE IF r.dueDate # NULL /\ DayOf(r.dueDate) < DayOf(now)
    THEN "dueDateInPast"
  ELSE IF r.idAccount \notin {1, 2} THEN "accountDoesntExist"
  ELSE IF <<r.idAccount, r.idUser>> \notin {<<1, 1>>, <<1, 2>>, <<2, 3>>}
    THEN "userDoesntExist"
  ELSE "none"

\* request r passes the transport validation of its handler
PassesTransport(r) ==
  /\ r.idAccount > 0 /\ r.idUser > 0
  /\ Len(r.title) >= 1 /\ Len(r.title) <= 100
  /\ Len(r.description) <= 500
  /\ (r.op = "Create" => r.priority \in {NULL, 0, 1, 2})
  /\ (r.op = "Update" => /\ r.idTask > 0
                          /\ r.priority \in {0, 1, 2}
                          /\ r.status \in {0, 1})

C19_TaskDoesntExistIs404 ==
  [][\A s \in Sessions :
       (/\ \E l \in ExistsLabels : Executes(s, l)
        /\ res'[s].kind = "error"
        /\ res'[s].message = "taskDoesntExist")
         => res'[s].http = "NOT_FOUND"]_vars

\* C20: every handler answers a rule error other than taskDoesntExist with
\* 400.
C20_OtherRuleErrorsAre400 ==
  \A s \in Sessions :
    (/\ res[s].kind = "error"
     /\ res[s].number = RuleError
     /\ res[s].message # "taskDoesntExist")
      => res[s].http = "BAD_REQUEST"

\* C21: a handler hands an error to next(error), writing no response, when
\* and only when the error is neither a ZodError nor a rule error (number
\* 51000).
C21_UnclassifiedToNext ==
  \A s \in Sessions :
    (res[s].http = "next")
      <=> (/\ res[s].kind = "error"
           /\ res[s].number # 51000)

\* the loser of a race for a title and a Get, Delete or List that found
\* the database out of reach were both handed to next(error)
C21_Witness ==
  \E s1, s2 \in Sessions :
    /\ req[s1].op \in {"Create", "Update"}
    /\ res[s1].number = DuplicateKey /\ res[s1].http = "next"
    /\ req[s2].op \in {"Get", "Delete", "List"}
    /\ res[s2] = Respond(req[s2].op, ConnectionError)
    /\ res[s2].http = "next"

\* request r has a body, a query or a path parameter that its handler's
\* schema does not accept
FailsTransport(r) ==
  \/ r.idAccount <= 0
  \/ r.idUser <= 0
  \/ r.op \in {"Update", "Get", "Delete"} /\ r.idTask <= 0
  \/ /\ r.op \in {"Create", "Update"}
     /\ (Len(r.title) < 1 \/ Len(r.title) > 100 \/ Len(r.description) > 500)
  \/ r.op = "Create" /\ r.priority \notin {NULL, 0, 1, 2}
  \/ r.op = "Update" /\ (r.priority \notin {0, 1, 2} \/ r.status \notin {0, 1})
  \/ r.op = "List" /\ r.status \notin {NULL, 0, 1}
  \/ r.op = "List" /\ r.priority \notin {NULL, 0, 1, 2}

\* session s, and no other, may have received a request in this step
Receives(s) ==
  /\ pc[s] = "idle"
  /\ calls' = calls + 1
  /\ req'[s].op # "none"
  /\ \A o \in Sessions \ {s} :
       pc'[o] = pc[o] /\ req'[o] = req[o] /\ res'[o] = res[o]

\* C22: a request that fails its handler's schema is answered 400 with
\* VALIDATION_ERROR, no procedure is started for it (the facade is not
\* called, also when the database is out of reach) and the store is
\* unchanged.
C22_TransportValidationFirst ==
  [][\A s \in Sessions :
       (Receives(s) /\ FailsTransport(req'[s]))
         => /\ pc'[s] = "idle"
            /\ res'[s].kind = "ZodError"
            /\ res'[s].message = "VALIDATION_ERROR"
            /\ res'[s].http = "BAD_REQUEST"
            /\ task' = task
            /\ identity' = identity]_vars

\* a request with a bad path parameter and one with a bad body were both
\* answered VALIDATION_ERROR while the store holds a task
C22_Witness ==
  \E s1, s2 \in Sessions :
    /\ req[s1].op \in {"Get", "Delete"} /\ FailsTransport(req[s1])
    /\ req[s2].op \in {"Create", "Update"} /\ FailsTransport(req[s2])
    /\ res[s1].message = "VALIDATION_ERROR" /\ res[s1].http = "BAD_REQUEST"
    /\ res[s2].message = "VALIDATION_ERROR" /\ res[s2].http = "BAD_REQUEST"
    /\ task # {}

(***************************************************************************)
(* Effects of the writes                                                   *)
(***************************************************************************)
\* session s takes a step in this step
Steps(s) == pc'[s] # pc[s] \/ res'[s] # res[s] \/ req'[s] # req[s]

\* C23: no step of a Create, Update or Delete call changes the store but
\* the step that ends the call with success; a call that ends in an error,
\* whatever the error, has written nothing.
C23_FailedWriteChangesNothing ==
  [][\A s \in Sessions :
       (/\ Steps(s)
        /\ req'[s].op \in {"Create", "Update", "Delete"}
        /\ ~(pc'[s] = "idle" /\ res'[s].kind = "ok"))
         => task' = task]_vars

\* a Create or an Update whose write the unique index rejected, with
\* tasks in the store
C23_Witness ==
  \E s \in Sessions :
    /\ req[s].op \in {"Create", "Update"}
    /\ pc[s] = "idle"
    /\ res[s].kind = "error" /\ res[s].number = DuplicateKey
    /\ \E t \in task : SameOwner(t, req[s]) /\ t.deleted = 0

\* the non-deleted task that request r addresses
Addressed(rows, r) ==
  {t \in rows : t.idTask = r.idTask /\ SameOwner(t, r) /\ t.deleted = 0}

\* C24: an Update that succeeds replaces title, description, priority,
\* dueDate (its calendar day) and status of the addressed task with the
\* values of the request, description "" and no dueDate when the request
\* has none, and sets dateModified to the current time; idTask, idAccount,
\* idUser, dateCreated and deleted of that task and every other task stay
\* as they are.
C24_UpdateReplacesAndFrames ==
  [][\A s \in Sessions :
       (Executes(s, "update_update") /\ res'[s].kind = "ok")
         => LET r == req[s] IN
              \E t \in Addressed(task, r) :
                \E u \in task' :
                  /\ task' = (task \ {t}) \cup {u}
                  /\ u.title = r.title
                  /\ u.description = r.description
                  /\ u.priority = r.priority
                  /\ u.status = r.status
                  /\ u.dueDate = (IF r.dueDate = NULL THEN NULL
                                  ELSE DayOf(r.dueDate))
                  /\ u.dateModified = now
                  /\ u.idTask = t.idTask
                  /\ u.idAccount = t.idAccount
                  /\ u.idUser = t.idUser
                  /\ u.dateCreated = t.dateCreated
                  /\ u.deleted = t.deleted]_vars

\* an Update without description and dueDate succeeded at a later time
\* than its task was created, and the owner has another task, which is
\* as it was created
C24_Witness ==
  \E s \in Sessions :
    /\ Succeeded(s, "Update")
    /\ req[s].dueDate = NULL /\ req[s].description = <<>>
    /\ \E t, o \in task :
         /\ t.idTask = req[s].idTask
         /\ t.dateModified > t.dateCreated
         /\ t.description = <<>> /\ t.dueDate = NULL /\ t.status = 1
         /\ o.idTask # t.idTask
         /\ o.description = <<"d">> /\ o.status = 0
         /\ o.dateModified = o.dateCreated

\* C25: a Delete that succeeds sets the deleted flag of the addressed task
\* and sets its dateModified to the current time, and changes nothing else:
\* the row keeps its other fields, every other task stays as it is, and no
\* step of any operation removes a row.
C25_DeleteFlagsOnly ==
  [][/\ \A s \in Sessions :
          (Executes(s, "delete_update") /\ res'[s].kind = "ok")
            => \E t \in Addressed(task, req[s]) :
                 task' = (task \ {t})
                           \cup {[t EXCEPT !.deleted = 1,
                                            !.dateModified = now]}
     /\ Cardinality(task') >= Cardinality(task)
     /\ \A t \in task : \E u \in task' : u.idTask = t.idTask]_vars

\* a task with a description was deleted at a later time than it was
\* created; it is stored with its description, and the owner's other task
\* is not deleted
C25_Witness ==
  \E s \in Sessions :
    /\ Succeeded(s, "Delete")
    /\ \E t, o \in task :
         /\ t.idTask = req[s].idTask
         /\ t.deleted = 1
         /\ t.description = <<"d">> /\ t.title = <<"b">>
         /\ t.dateModified > t.dateCreated
         /\ o.idTask # t.idTask
         /\ o.deleted = 0 /\ o.dateModified = o.dateCreated

\* C28: an Update by the owner of a non-deleted task, with fields that
\* meet every precondition and a title no other task of the owner carries,
\* passes every check and writes its status, 0 or 1, whatever the status of
\* the task is; and the status of a stored task changes in no step but the
\* UPDATE statement of an Update that addresses it.
C28_StatusBothWays ==
  [][/\ \A s \in Sessions :
          LET r == req'[s]
              q == req[s]
              others == {t \in Holders(task, q) : t.idTask # q.idTask}
          IN  /\ (/\ Enters(s) /\ r.op = "Update" /\ PassesTransport(r)
                   /\ FirstViolatedInput(r) = "none")
                    => pc'[s] = "update_exists"
              /\ (Executes(s, "update_exists") /\ Addressed(task, q) # {})
                    => pc'[s] = "update_unique"
              /\ (Executes(s, "update_unique") /\ others = {})
                    => pc'[s] = "update_update"
              /\ (Executes(s, "update_update") /\ Addressed(task, q) # {})
                    => /\ res'[s].kind = "ok"
                       /\ \A u \in Addressed(task', q) : u.status = q.status
     /\ \A t \in task :
          \A u \in task' :
            (u.idTask = t.idTask /\ u.status # t.status)
              => \E s \in Sessions :
                   /\ Executes(s, "update_update")
                   /\ t \in Addressed(task, req[s])]_vars

\* an Update to Pending of a task that is Completed has passed every check
\* and stands before its UPDATE statement
C28_Witness ==
  \E s \in Sessions :
    /\ pc[s] = "update_update"
    /\ req[s].status = 0
    /\ \E t \in Addressed(task, req[s]) :
         t.status = 1 /\ t.dateModified > t.dateCreated

\* the stored task t has a dueDate on a day before the current one
Overdue(t) == t.dueDate # NULL /\ t.dueDate < DayOf(now)

\* C29: a Get that addresses a non-deleted task whose dueDate has passed
\* returns that task, and a List returns every such task of its owner that
\* its filters admit; neither fails because of the dueDate.
C29_OverdueStillRead ==
  [][\A s \in Sessions :
       LET q == req[s]
           rs == res'[s].recordset
       IN  /\ (/\ Executes(s, "get_exists")
                /\ \E t \in Addressed(task, q) : Overdue(t))
                 => pc'[s] = "get_select"
           /\ (/\ Executes(s, "get_select")
                /\ \E t \in Addressed(task, q) : Overdue(t))
                 => /\ res'[s].kind = "ok" /\ res'[s].http = "OK"
                    /\ Len(rs) = 1
                    /\ rs[1].idTask = q.idTask
           /\ Executes(s, "list_select")
                 => /\ res'[s].kind = "ok" /\ res'[s].http = "OK"
                    /\ \A t \in Listed(task, q) :
                         Overdue(t) => \E i \in 1..Len(rs) :
                                         rs[i].idTask = t.idTask]_vars

\* a List returned a task whose dueDate lies on a day before the current
\* one
C29_Witness ==
  \E s \in Sessions :
    /\ Succeeded(s, "List")
    /\ \E i \in 1..Len(res[s].recordset) :
         /\ res[s].recordset[i].dueDate # NULL
         /\ DayOf(res[s].recordset[i].dueDate) < DayOf(now)
         /\ \E t \in task : /\ t.idTask = res[s].recordset[i].idTask
                              /\ Overdue(t) /\ t.deleted = 0

\* C30: whenever an Update returns success, its task was not deleted when
\* the UPDATE statement ran, and the task holds the values of the request
\* after it, under any interleaving with the statements of a Delete.
C30_UpdateSuccessMeansWritten ==
  [][\A s \in Sessions :
       (Executes(s, "update_update") /\ res'[s].kind = "ok")
         => /\ Addressed(task, req[s]) # {}
            /\ \E u \in Addressed(task', req[s]) :
                 /\ u.title = req[s].title
                 /\ u.description = req[s].description
                 /\ u.priority = req[s].priority
                 /\ u.status = req[s].status]_vars

\* C31: no two Delete calls on one task both return success, under any
\* interleaving of their statements; the later one fails with
\* taskDoesntExist.
C31_OneDeleteSucceeds ==
  \A s1, s2 \in Sessions :
    (/\ s1 # s2
     /\ req[s1].op = "Delete" /\ req[s2].op = "Delete"
     /\ req[s1].idTask = req[s2].idTask
     /\ SameOwner(req[s1], req[s2])
     /\ pc[s1] = "idle" /\ pc[s2] = "idle"
     /\ res[s1].kind = "ok")
      => Failed(s2, "Delete", "taskDoesntExist")

\* request r is an Update that gives back the stored title, description,
\* priority and dueDate of the non-deleted task it addresses
Resubmits(rows, r) ==
  /\ r.op = "Update"
  /\ r.status \in {0, 1}
  /\ \E t \in Addressed(rows, r) :
       /\ t.title = r.title
       /\ t.description = r.description
       /\ t.priority = r.priority
       /\ r.dueDate = (IF t.dueDate = NULL THEN NULL ELSE Midnight(t.dueDate))

\* C34: an Update by the owner that gives back the stored title,
\* description, priority and dueDate of a non-deleted task and a status of
\* 0 or 1 passes every check and succeeds, on the day the task was written
\* and on every later day.
C34_ResubmitSucceeds ==
  [][\A s \in Sessions :
       /\ (Enters(s) /\ Resubmits(task, req'[s]))
             => pc'[s] = "update_exists"
       /\ (Executes(s, "update_exists") /\ Resubmits(task, req[s]))
             => pc'[s] = "update_unique"
       /\ (Executes(s, "update_unique") /\ Resubmits(task, req[s]))
             => pc'[s] = "update_update"
       /\ (Executes(s, "update_update") /\ Resubmits(task, req[s]))
             => res'[s].kind = "ok"]_vars

\* C35: no step of a call made with (idAccount, idUser) changes or removes
\* a task whose (idAccount, idUser) differs, whether the call ends in
\* success or in an error.
C35_OtherOwnersUntouched ==
  [][\A s \in Sessions :
       Steps(s) => \A t \in task : ~SameOwner(t, req'[s]) => t \in task']_vars

\* an Update or a Delete that addressed a stored task of another owner,
\* was refused, and left that task in place
C35_Witness ==
  \E s \in Sessions :
    /\ req[s].op \in {"Update", "Delete"}
    /\ Failed(s, req[s].op, "taskDoesntExist")
    /\ \E t \in task :
         /\ t.idTask = req[s].idTask
         /\ ~SameOwner(t, req[s])
         /\ t.deleted = 0

(***************************************************************************)
(* The records read                                                        *)
(***************************************************************************)
\* the fields the interface TaskEntity declares
TaskEntityFields ==
  {"idTask", "idAccount", "idUser", "title", "description", "priority",
   "dueDate", "status", "dateCreated", "dateModified"}

\* C36: every record a Get or a List returns has all the fields of
\* TaskEntity, and its idAccount and idUser are those of the request.
C36_RecordsAreTaskEntities ==
  \A s \in Sessions :
    (/\ req[s].op \in {"Get", "List"}
     /\ pc[s] = "idle"
     /\ res[s].kind = "ok")
      => \A i \in 1..Len(res[s].recordset) :
           LET rec == res[s].recordset[i]
           IN  /\ TaskEntityFields \subseteq DOMAIN rec
               /\ rec.idAccount = req[s].idAccount
               /\ rec.idUser = req[s].idUser

(***************************************************************************)
(* The client's form                                                       *)
(***************************************************************************)
\* C37: every create request the TaskForm accepts and submits, with or
\* without a dueDate chosen in its date input, passes the transport
\* validation of POST /task: it is not answered with VALIDATION_ERROR but
\* handed to the facade.
C37_FormPassesTransport ==
  [][\A s \in Sessions :
       (/\ Enters(s)
        /\ req'[s].op = "Create"
        /\ req'[s].title = form.title
        /\ req'[s].dueDate = form.dueDate)
         => res'[s].kind # "ZodError"]_vars

(***************************************************************************)
(* Invariants of the store                                                 *)
(***************************************************************************)
\* C26: every stored task has a priority of 0, 1 or 2 and a status of 0 or
\* 1, whatever priority and status the requests carry.
C26_PriorityStatusDomain ==
  \A t \in task : t.priority \in {0, 1, 2} /\ t.status \in {0, 1}

\* a Create with priority 3 and an Update with status 2 were answered, and
\* a task of the highest priority is stored
C26_Witness ==
  \E s1, s2 \in Sessions :
    /\ req[s1].op = "Create" /\ req[s1].priority = 3
    /\ res[s1].kind # "none" /\ pc[s1] = "idle"
    /\ req[s2].op = "Update" /\ req[s2].status = 2
    /\ res[s2].kind # "none" /\ pc[s2] = "idle"
    /\ \E t \in task : t.priority = 2

\* the account of x exists and the user of x is a user of that account
OwnerConsistent(x) ==
  /\ x.idAccount \in {1, 2}
  /\ <<x.idAccount, x.idUser>> \in {<<1, 1>>, <<1, 2>>, <<2, 3>>}

\* C27: every stored task belongs to an account that exists and to a user
\* of that account; a Create succeeds for such a pair only; and no step
\* changes the idAccount or the idUser of a stored task.
C27_OwnerConsistent ==
  [][/\ \A t \in task' : OwnerConsistent(t)
     /\ \A s \in Sessions :
          (req'[s].op = "Create" /\ res'[s].kind = "ok")
            => OwnerConsistent(req'[s])
     /\ \A t \in task :
          \E u \in task' : /\ u.idTask = t.idTask
                            /\ u.idAccount = t.idAccount
                            /\ u.idUser = t.idUser]_vars

\* a Create for a user of another account and a Create for an account
\* that does not exist were rejected, and a task is stored
C27_Witness ==
  \E s1, s2 \in Sessions :
    /\ Failed(s1, "Create", "userDoesntExist")
    /\ req[s1].idAccount = 2 /\ req[s1].idUser = 1
    /\ Failed(s2, "Create", "accountDoesntExist")
    /\ \E t \in task : OwnerConsistent(t)

(***************************************************************************)
(* The connection pool                                                     *)
(***************************************************************************)
\* the ConnectionPool objects that are open, and those created and not yet
\* failed or closed
OpenPools == {p \in 1..Len(pools) : pools[p] = "open"}
LivePools == {p \in 1..Len(pools) : pools[p] \in {"connecting", "open"}}

\* C32: as long as closePool has not been called, getPool calls, however
\* they interleave, have at most one ConnectionPool connecting or open,
\* every open ConnectionPool is the one the variable pool refers to, and
\* the callers that were given a pool were given the same one.
C32_GetPoolSingleton ==
  tally.closePool = 0
    => /\ Cardinality(LivePools) <= 1
       /\ \A p \in OpenPools : pool = p
       /\ \A c1, c2 \in PoolCallers :
            (/\ ppc[c1] = "idle" /\ ppc[c2] = "idle"
             /\ held[c1] # 0 /\ held[c2] # 0) => held[c1] = held[c2]

\* C33: when a closePool call finishes, every open ConnectionPool is the
\* one the variable pool refers to, and the reference the call clears is
\* the reference to the pool it closed.
C33_TeardownComplete ==
  [][tally'.closed # tally.closed
       => /\ \A c \in PoolCallers :
               (ppc[c] = "close" /\ ppc'[c] = "idle")
                 => (pool = 0 \/ pool = held[c])
          /\ \A p \in 1..Len(pools') : pools'[p] = "open" => pool' = p]_vars

(***************************************************************************)
(* List                                                                    *)
(***************************************************************************)
\* x may stand before y: priority descending, then dueDate ascending with
\* the rows without dueDate after the others, then dateCreated descending
InOrderNullsLast(x, y) ==
  \/ x.priority > y.priority
  \/ /\ x.priority = y.priority
     /\ x.dueDate # NULL
     /\ (y.dueDate = NULL \/ x.dueDate < y.dueDate)
  \/ /\ x.priority = y.priority
     /\ x.dueDate = y.dueDate
     /\ x.dateCreated >= y.dateCreated

\* the same with the rows without dueDate before the others
InOrderNullsFirst(x, y) ==
  \/ x.priority > y.priority
  \/ /\ x.priority = y.priority
     /\ y.dueDate # NULL
     /\ (x.dueDate = NULL \/ x.dueDate < y.dueDate)
  \/ /\ x.priority = y.priority
     /\ x.dueDate = y.dueDate
     /\ x.dateCreated >= y.dateCreated

C8_ListExact ==
  [][\A s \in Sessions :
       Executes(s, "list_select") =>
         LET rs == res'[s].recordset IN
           /\ res'[s].kind = "ok"
           /\ {rs[i].idTask : i \in 1..Len(rs)}
                = {t.idTask : t \in Listed(task, req[s])}
           /\ Len(rs) = Cardinality(Listed(task, req[s]))
           /\ \A i \in 1..Len(rs) :
                \E t \in Listed(task, req[s]) :
                  /\ t.idTask = rs[i].idTask /\ t.title = rs[i].title
                  /\ t.priority = rs[i].priority /\ t.status = rs[i].status
                  /\ rs[i].dueDate = (IF t.dueDate = NULL THEN NULL
                                       ELSE Midnight(t.dueDate))]_vars

\* a filtered list that leaves out a task of the owner that the filter
\* rejects and a task of another user
C8_Witness ==
  \E s \in Sessions :
    /\ Succeeded(s, "List")
    /\ req[s].priority # NULL
    /\ Len(res[s].recordset) >= 1
    /\ \E t \in task : SameOwner(t, req[s]) /\ t.deleted = 0
                         /\ t.priority # req[s].priority
    /\ \E t \in task : ~SameOwner(t, req[s])
    /\ \A t \in task : \A i \in 1..Len(res[s].recordset) :
         (t.idTask = res[s].recordset[i].idTask)
           => (SameOwner(t, req[s]) /\ t.deleted = 0)

====
